---- MODULE Spec2Model ----
(***************************************************************************)
(* Model of meal_planner.db.DbClient (SQLModel/SQLAlchemy over SQLite).    *)
(*                                                                         *)
(* The committed store is the three tables meal, ingredient and            *)
(* mealingredient.  Every DbClient method opens its own Session; a Session *)
(* holds a working copy (cur) of the store, session.commit() makes the     *)
(* working copy the committed store, and leaving the `with Session` block  *)
(* by an exception discards whatever was not committed.  Queries autoflush,*)
(* so a query inside a session sees the session's own pending rows.        *)
(*                                                                         *)
(* Table mealingredient is kept as the sequence of its rows in id order:   *)
(* SQLite hands a new row the largest id + 1, so a new row is appended,    *)
(* and the id is used by the program only to order rows.                   *)
(*                                                                         *)
(* Variable sessions holds the add_meal calls that are running when calls  *)
(* are interleaved (one Session each); it is empty when every call runs    *)
(* from start to end on its own.                                           *)
(*                                                                         *)
(* Names are sequences of ASCII codes so that lower() is computed.         *)
(* Python's None is the string "None"; Python's True/False are 1/0.        *)
(***************************************************************************)
EXTENDS Integers, Sequences, FiniteSets, TLC

VARIABLES meals, ingredients, links, last, sessions

vars == <<meals, ingredients, links, last, sessions>>

(* ---------------------------- bounds ----------------------------------- *)
\* most Meal rows the model lets the store hold
MaxMeals == 2
\* longest ingredient list passed to add_meal / update_meal
MaxIngs == 2
\* most whitespace characters put before and behind a category string
MaxPad == 1
\* longest category string built freely from CategoryAlphabet
MaxStr == 4
\* most rows of a CSV file
MaxRows == 2
\* most MealIngredient rows of a store the shopping list is computed from
MaxShopLinks == 3

(* ---------------------------- input domains ---------------------------- *)
None == "None"
True == 1
False == 0

\* "P", "p", "R"
MealNames == {<<80>>, <<112>>, <<82>>}
\* (description, recipe_link, notes)
Metas == {<<"d", "l", "n">>}
\* ingredient tuples: a 3-tuple, a 4-tuple whose category is not a Category
\* name, a 4-tuple with a Category name, and a malformed 2-tuple
\* "G" = 71, "g" = 103, "S" = 83
Entries ==
    { <<(<<71>>), 1, "g">>,
      <<(<<103>>), 2, "g", "zzz">>,
      <<(<<83>>), 1>> }
IngredientLists == UNION {[1..n -> Entries] : n \in 0..MaxIngs}
MealIds == 1..(MaxMeals + 1)
\* the commit of the call that fails with a storage error; 0 = none fails
FailPoints == 0..2

(* ---------------------------- Category --------------------------------- *)
CategoryNames ==
    {"VEGETABLES", "BAKERY", "FRIDGE", "DRY_FOOD", "ASIAN", "CANS", "SPICES",
     "TREATS", "NOT_SURE", "BAKING", "FROZEN", "ORGANIC_STORE", "MEAT_FRIDGE",
     "ALCOHOL", "OTHER"}

(* ---------------------------- SQL helpers ------------------------------ *)
\* SQLite lower(): ASCII letters only
LowerChar(c) == IF c \in 65..90 THEN c + 32 ELSE c
Lower(s) == [i \in DOMAIN s |-> LowerChar(s[i])]

Ids(rows) == {r.id : r \in rows}
\* INTEGER PRIMARY KEY without AUTOINCREMENT: rowid = largest rowid + 1
NextId(rows) ==
    IF rows = {} THEN 1
    ELSE (CHOOSE m \in Ids(rows) : \A k \in Ids(rows) : k <= m) + 1
\* .first() of a scan in rowid order; only used on a nonempty result
First(rows) == CHOOSE r \in rows : \A q \in rows : r.id <= q.id

Store(m, i, l) == [meals |-> m, ingredients |-> i, links |-> l]

(* ---------------------------- Session ---------------------------------- *)
\* cur: the session's view, com: the committed store, n: commits attempted,
\* obs: the stores committed during the call, err: the exception raised
OpenSession(db) == [cur |-> db, com |-> db, n |-> 0, obs |-> {}, err |-> "ok"]

\* leaving the with-block on an exception: pending changes are discarded
Raise(st, e) == [st EXCEPT !.cur = st.com, !.err = e]

\* session.commit(); the failAt-th commit of the call raises
Commit(st, failAt) ==
    IF st.n + 1 = failAt
    THEN [Raise(st, "OperationalError") EXCEPT !.n = st.n + 1]
    ELSE [st EXCEPT !.com = st.cur, !.n = st.n + 1, !.obs = @ \cup {st.cur}]

(* ---------------------------- lookups ---------------------------------- *)
\* faulty variant: the name is compared as written
FindMealExact(rows, name) == {m \in rows : m.name = name}

\* select(Meal).where(func.lower(Meal.name) == func.lower(name))
FindMeal(rows, name) == {m \in rows : Lower(m.name) = Lower(name)}

\* faulty variant: the name is compared as written
FindIngredientExact(rows, name) == {g \in rows : g.name = name}

\* select(Ingredient).where(func.lower(Ingredient.name) == func.lower(name))
FindIngredient(rows, name) == {g \in rows : Lower(g.name) = Lower(name)}

\* session.get(Meal, meal_id)
GetMeal(rows, meal_id) == {m \in rows : m.id = meal_id}

\* select(MealIngredient).where(MealIngredient.meal_id == meal_id)
MealLinks(rows, meal_id) == SelectSeq(rows, LAMBDA l : l.meal_id = meal_id)

\* faulty variant: the rows of the meal are not deleted
KeepLinks(rows, meal_id) == rows

\* faulty variant: the rows of every meal are deleted
NoLinks(rows, meal_id) == SelectSeq(rows, LAMBDA l : FALSE)

\* the rows left when those of MealLinks(rows, meal_id) are deleted
OtherLinks(rows, meal_id) == SelectSeq(rows, LAMBDA l : l.meal_id # meal_id)

\* the rows of table mealingredient, as a set
Rows(rows) == {rows[i] : i \in DOMAIN rows}

(* ---------------------------- ingredient tuples ------------------------ *)
\* the arity check of the loop body
ValidTuple(t) == Len(t) = 3 \/ Len(t) = 4

\* category = None for a 3-tuple, the fourth field for a 4-tuple
TupleCategory(t) == IF Len(t) = 4 THEN t[4] ELSE None

\* category if category else "NOT_SURE"  (None and "" are falsy)
NewCategory(category) ==
    IF category = None \/ category = "" THEN "NOT_SURE" ELSE category

\* faulty variant: an ingredient that exists takes the spelling and the
\* category of the tuple
ResolveIngredientOverwrite(st, t, failAt) ==
    LET found == FindIngredient(st.cur.ingredients, t[1])
    IN  IF found # {}
        THEN [st EXCEPT !.cur.ingredients = (@ \ found) \cup
                 {[id |-> First(found).id,
                   name |-> t[1],
                   category |-> NewCategory(TupleCategory(t))]}]
        ELSE Commit([st EXCEPT !.cur.ingredients = @ \cup
                        {[id |-> NextId(st.cur.ingredients),
                          name |-> t[1],
                          category |-> NewCategory(TupleCategory(t))]}],
                    failAt)

\* find or create the ingredient of tuple t; a created row is committed at
\* once, together with everything pending in the session
ResolveIngredient(st, t, failAt) ==
    IF FindIngredient(st.cur.ingredients, t[1]) # {}
    THEN st
    ELSE Commit([st EXCEPT !.cur.ingredients = @ \cup
                    {[id |-> NextId(st.cur.ingredients),
                      name |-> t[1],
                      category |-> NewCategory(TupleCategory(t))]}],
                failAt)

NewLink(st, meal_id, t) ==
    [meal_id |-> meal_id,
     ingredient_id |-> First(FindIngredient(st.cur.ingredients, t[1])).id,
     quantity |-> t[2],
     unit |-> t[3]]

\* add_meal: skip the tuple when the (meal, ingredient) link already exists
AddMealLink(st, meal_id, t) ==
    LET ingredient == First(FindIngredient(st.cur.ingredients, t[1]))
        existing_relationship ==
            {l \in Rows(st.cur.links) :
                l.meal_id = meal_id /\ l.ingredient_id = ingredient.id}
    IN  IF existing_relationship # {}
        THEN st
        ELSE [st EXCEPT !.cur.links = Append(@, NewLink(st, meal_id, t))]

\* update_meal: the link is added without looking for an existing one
UpdateMealLink(st, meal_id, t) ==
    [st EXCEPT !.cur.links = Append(@, NewLink(st, meal_id, t))]

\* one iteration of the `for ingredient_tuple in ingredients` loop
IngredientStep(st, meal_id, t, failAt, updating) ==
    IF ~ValidTuple(t)
    THEN Raise(st, "ValueError")
    ELSE LET st1 == ResolveIngredient(st, t, failAt)
         IN  IF st1.err # "ok" THEN st1
             ELSE IF updating THEN UpdateMealLink(st1, meal_id, t)
                  ELSE AddMealLink(st1, meal_id, t)

RECURSIVE IngredientLoop(_, _, _, _, _, _)
IngredientLoop(st, meal_id, ings, i, failAt, updating) ==
    IF st.err # "ok" \/ i > Len(ings)
    THEN st
    ELSE IngredientLoop(IngredientStep(st, meal_id, ings[i], failAt, updating),
                        meal_id, ings, i + 1, failAt, updating)

(* ---------------------------- DbClient methods ------------------------- *)
\* the result of a call: the session at its end and the value returned
\* (ret = -1 when the call raised st.err)
Result(st, ret) == [st |-> st, ret |-> IF st.err = "ok" THEN ret ELSE -1]

\* faulty variant: the ingredient list is added to the existing meal
AddExistingLinks(st, existing_meal, ings, failAt) ==
    LET st2 == IngredientLoop(st, existing_meal.id, ings, 1, failAt, FALSE)
    IN  IF st2.err # "ok" \/ ings = <<>>
        THEN Result(st2, existing_meal.id)
        ELSE Result(Commit(st2, failAt), existing_meal.id)

\* add_meal when the name is taken: return the existing id
AddExisting(st, existing_meal, ings, failAt) == Result(st, existing_meal.id)

\* add_meal when the name is free
AddNew(st, name, meta, ings, failAt) ==
    LET meal_id == NextId(st.cur.meals)
        meal == [id |-> meal_id, name |-> name, description |-> meta[1],
                 recipe_link |-> meta[2], notes |-> meta[3]]
        st1 == Commit([st EXCEPT !.cur.meals = @ \cup {meal}], failAt)
    IN  IF st1.err # "ok" \/ ings = <<>>
        THEN Result(st1, meal_id)
        ELSE LET st2 == IngredientLoop(st1, meal_id, ings, 1, failAt, FALSE)
             IN  IF st2.err # "ok"
                 THEN Result(st2, meal_id)
                 ELSE Result(Commit(st2, failAt), meal_id)

add_meal(db, name, meta, ings, failAt) ==
    LET existing == FindMeal(db.meals, name)
    IN  IF existing # {}
        THEN AddExisting(OpenSession(db), First(existing), ings, failAt)
        ELSE AddNew(OpenSession(db), name, meta, ings, failAt)

\* the UNIQUE (name) constraint of table meal, checked when the renamed row
\* is flushed; SQLite compares the names byte for byte
MealNameTaken(rows, meal_id, name) ==
    \E m \in rows : m.id # meal_id /\ m.name = name

\* faulty variant: the ingredients are resolved and linked although the
\* meal does not exist
UpdateMissingCreates(st, meal_id, ings, failAt) ==
    LET st2 == IngredientLoop(st, meal_id, ings, 1, failAt, TRUE)
    IN  IF st2.err # "ok" THEN Result(st2, False)
        ELSE Result(Commit(st2, failAt), False)

\* update_meal when session.get finds no meal: return False
UpdateMissing(st, meal_id, ings, failAt) == Result(st, False)

update_meal(db, meal_id, name, meta, ings, failAt) ==
    LET st0 == OpenSession(db)
        found == GetMeal(db.meals, meal_id)
    IN  IF found = {}
        THEN UpdateMissing(st0, meal_id, ings, failAt)
        ELSE IF MealNameTaken(db.meals, meal_id, name)
        THEN Result(Raise(st0, "IntegrityError"), False)
        ELSE
        LET meal == [id |-> meal_id, name |-> name, description |-> meta[1],
                     recipe_link |-> meta[2], notes |-> meta[3]]
            st1 == [st0 EXCEPT
                      !.cur.meals = (@ \ found) \cup {meal},
                      !.cur.links = OtherLinks(@, meal_id)]
            st2 == IngredientLoop(st1, meal_id, ings, 1, failAt, TRUE)
        IN  IF st2.err # "ok"
            THEN Result(st2, False)
            ELSE Result(Commit(st2, failAt), True)

\* faulty variant: the meal row is deleted and its links are left behind
delete_meal_only(db, meal_id, failAt) ==
    LET st0 == OpenSession(db)
        found == GetMeal(db.meals, meal_id)
    IN  IF found = {}
        THEN Result(st0, False)
        ELSE Result(Commit([st0 EXCEPT !.cur.meals = @ \ found], failAt), True)

\* faulty variant: the ingredients the meal used are deleted with it
delete_meal_cascade(db, meal_id, failAt) ==
    LET st0 == OpenSession(db)
        found == GetMeal(db.meals, meal_id)
        used == {l.ingredient_id : l \in Rows(MealLinks(db.links, meal_id))}
    IN  IF found = {}
        THEN Result(st0, False)
        ELSE Result(Commit([st0 EXCEPT
                              !.cur.links = OtherLinks(@, meal_id),
                              !.cur.ingredients = {g \in @ : g.id \notin used},
                              !.cur.meals = @ \ found], failAt), True)

\* faulty variant: True is returned whether or not the meal exists
delete_meal_truthy(db, meal_id, failAt) ==
    LET st0 == OpenSession(db)
        found == GetMeal(db.meals, meal_id)
    IN  Result(Commit([st0 EXCEPT
                         !.cur.links = OtherLinks(@, meal_id),
                         !.cur.meals = @ \ found], failAt), True)

delete_meal(db, meal_id, failAt) ==
    LET st0 == OpenSession(db)
        found == GetMeal(db.meals, meal_id)
    IN  IF found = {}
        THEN Result(st0, False)
        ELSE Result(Commit([st0 EXCEPT
                              !.cur.links = OtherLinks(@, meal_id),
                              !.cur.meals = @ \ found], failAt), True)

\* faulty variant: every ingredient is taken to be unused
cleanup_every_ingredient(db, failAt) ==
    Result(Commit([OpenSession(db) EXCEPT !.cur.ingredients = {}], failAt),
           Cardinality(db.ingredients))

\* faulty variant: the call returns the number of Ingredient rows stored
cleanup_count_all(db, failAt) ==
    LET st0 == OpenSession(db)
        unused_ingredients ==
            {g \in db.ingredients :
                g.id \notin {l.ingredient_id : l \in Rows(db.links)}}
    IN  Result(Commit([st0 EXCEPT !.cur.ingredients = @ \ unused_ingredients],
                      failAt),
               Cardinality(db.ingredients))

cleanup_unused_ingredients(db, failAt) ==
    LET st0 == OpenSession(db)
        unused_ingredients ==
            {g \in db.ingredients :
                g.id \notin {l.ingredient_id : l \in Rows(db.links)}}
    IN  Result(Commit([st0 EXCEPT !.cur.ingredients = @ \ unused_ingredients],
                      failAt),
               Cardinality(unused_ingredients))

(* ---------------------------- Category.from_string --------------------- *)
\* the characters of the category strings the model stores
Ascii(s) ==
    CASE
         s = "VEGETABLES" -> <<86, 69, 71, 69, 84, 65, 66, 76, 69, 83>>
      [] s = "BAKERY" -> <<66, 65, 75, 69, 82, 89>>
      [] s = "FRIDGE" -> <<70, 82, 73, 68, 71, 69>>
      [] s = "DRY_FOOD" -> <<68, 82, 89, 95, 70, 79, 79, 68>>
      [] s = "ASIAN" -> <<65, 83, 73, 65, 78>>
      [] s = "CANS" -> <<67, 65, 78, 83>>
      [] s = "SPICES" -> <<83, 80, 73, 67, 69, 83>>
      [] s = "TREATS" -> <<84, 82, 69, 65, 84, 83>>
      [] s = "NOT_SURE" -> <<78, 79, 84, 95, 83, 85, 82, 69>>
      [] s = "BAKING" -> <<66, 65, 75, 73, 78, 71>>
      [] s = "FROZEN" -> <<70, 82, 79, 90, 69, 78>>
      [] s = "ORGANIC_STORE" -> <<79, 82, 71, 65, 78, 73, 67, 95, 83, 84, 79, 82, 69>>
      [] s = "MEAT_FRIDGE" -> <<77, 69, 65, 84, 95, 70, 82, 73, 68, 71, 69>>
      [] s = "ALCOHOL" -> <<65, 76, 67, 79, 72, 79, 76>>
      [] s = "OTHER" -> <<79, 84, 72, 69, 82>>
      [] s = "zzz" -> <<122, 122, 122>>
      [] s = "Dry Food" -> <<68, 114, 121, 32, 70, 111, 111, 100>>
      [] s = " fridge " -> <<32, 102, 114, 105, 100, 103, 101, 32>>
      [] OTHER -> <<>>

\* Category.<name>.value
CategoryValue(c) ==
    CASE
         c = "VEGETABLES" -> 1
      [] c = "BAKERY" -> 2
      [] c = "FRIDGE" -> 3
      [] c = "DRY_FOOD" -> 4
      [] c = "ASIAN" -> 5
      [] c = "CANS" -> 6
      [] c = "SPICES" -> 7
      [] c = "TREATS" -> 8
      [] c = "NOT_SURE" -> 9
      [] c = "BAKING" -> 10
      [] c = "FROZEN" -> 11
      [] c = "ORGANIC_STORE" -> 12
      [] c = "MEAT_FRIDGE" -> 14
      [] c = "ALCOHOL" -> 15
      [] c = "OTHER" -> 16

\* the characters str.strip() removes
Whitespace == {9, 10, 11, 12, 13, 28, 29, 30, 31, 32}

RECURSIVE LStrip(_)
LStrip(cs) ==
    IF cs # <<>> /\ Head(cs) \in Whitespace THEN LStrip(Tail(cs)) ELSE cs

RECURSIVE RStrip(_)
RStrip(cs) ==
    IF cs # <<>> /\ cs[Len(cs)] \in Whitespace
    THEN RStrip(SubSeq(cs, 1, Len(cs) - 1))
    ELSE cs

\* str.strip()
Strip(cs) == RStrip(LStrip(cs))

\* str.upper()
Upper(cs) == [i \in DOMAIN cs |-> IF cs[i] \in 97..122 THEN cs[i] - 32 ELSE cs[i]]

\* str.replace(" ", "_")
ReplaceSpaces(cs) == [i \in DOMAIN cs |-> IF cs[i] = 32 THEN 95 ELSE cs[i]]

\* faulty variant: the spaces are left as they are
NormalizeKeepSpaces(cs) == Upper(Strip(cs))

\* category_str.strip().upper().replace(" ", "_"), on the characters
NormalizeChars(cs) == ReplaceSpaces(Upper(Strip(cs)))

\* category_str.strip().upper().replace(" ", "_")
Normalize(category_str) == NormalizeChars(Ascii(category_str))

\* faulty variant: a string that matches no name gives OTHER
from_string_other(category_str) ==
    IF category_str = None \/ category_str = ""
          \/ Strip(Ascii(category_str)) = <<>>
    THEN "NOT_SURE"
    ELSE IF \E c \in CategoryNames : Ascii(c) = Normalize(category_str)
    THEN CHOOSE c \in CategoryNames : Ascii(c) = Normalize(category_str)
    ELSE "OTHER"

\* faulty variant: the KeyError of cls[normalized] is not caught
from_chars_raises(cs) ==
    IF cs = <<>> \/ Strip(cs) = <<>>
    THEN "NOT_SURE"
    ELSE IF \E c \in CategoryNames : Ascii(c) = NormalizeChars(cs)
    THEN CHOOSE c \in CategoryNames : Ascii(c) = NormalizeChars(cs)
    ELSE "KeyError"

\* Category.from_string on a str given by its characters: the name of the
\* Category returned
from_chars(cs) ==
    IF cs = <<>> \/ Strip(cs) = <<>>
    THEN "NOT_SURE"
    ELSE LET normalized == NormalizeChars(cs)
         IN  IF normalized = Ascii("MEAT_FRIDGE") THEN "MEAT_FRIDGE"
             ELSE IF normalized = Ascii("DRY_FOOD") THEN "DRY_FOOD"
             ELSE IF normalized = Ascii("NOT_SURE") THEN "NOT_SURE"
             ELSE IF normalized = Ascii("ORGANIC_STORE") THEN "ORGANIC_STORE"
             ELSE IF \E c \in CategoryNames : Ascii(c) = normalized
             THEN CHOOSE c \in CategoryNames : Ascii(c) = normalized
             ELSE "NOT_SURE"

\* Category.from_string: the name of the Category returned
from_string(category_str) ==
    IF category_str = None
    THEN "NOT_SURE"
    ELSE from_chars(Ascii(category_str))

\* str.title(): a letter is upper case after a non-letter, lower case else
Title(cs) ==
    [i \in DOMAIN cs |->
        IF i = 1 \/ cs[i - 1] \notin (65..90) \cup (97..122)
        THEN (IF cs[i] \in 97..122 THEN cs[i] - 32 ELSE cs[i])
        ELSE LowerChar(cs[i])]

\* Category.display_name: self.name.replace("_", " ").title()
display_name(c) ==
    Title([i \in DOMAIN Ascii(c) |->
              IF Ascii(c)[i] = 95 THEN 32 ELSE Ascii(c)[i]])

(* ---------------------------- reads ------------------------------------ *)
\* select(MealIngredient).join(Ingredient).where(meal_id == meal_id)
\*   .order_by(MealIngredient.id), each row with its ingredient's name
get_meal_ingredients(db, meal_id) ==
    LET joined == SelectSeq(db.links, LAMBDA l :
                      l.meal_id = meal_id /\ l.ingredient_id \in Ids(db.ingredients))
    IN  [i \in DOMAIN joined |->
            [quantity |-> joined[i].quantity,
             unit |-> joined[i].unit,
             notes |-> None,
             ingredient_name |->
                (CHOOSE g \in db.ingredients : g.id = joined[i].ingredient_id).name]]

\* the ids of the list meal_ids (MealIngredient.meal_id.in_(meal_ids))
IdSet(meal_ids) == {meal_ids[i] : i \in DOMAIN meal_ids}

\* select(MealIngredient, Ingredient).join(...) for the meals in ids: the
\* pairs come in the order of the scan of table mealingredient
JoinPairs(db, ids) ==
    LET joined == SelectSeq(db.links, LAMBDA l :
                      /\ l.meal_id \in ids
                      /\ l.ingredient_id \in Ids(db.ingredients))
    IN  [i \in DOMAIN joined |->
            [meal_ingredient |-> joined[i],
             ingredient |-> CHOOSE g \in db.ingredients :
                                g.id = joined[i].ingredient_id]]

\* faulty variant: one query per id of the list, in the order of the list
RECURSIVE PairsPerId(_, _, _)
PairsPerId(db, meal_ids, i) ==
    IF i = 0 THEN <<>>
    ELSE PairsPerId(db, meal_ids, i - 1) \o JoinPairs(db, {meal_ids[i]})
SelectedPairsInListOrder(db, meal_ids) == PairsPerId(db, meal_ids, Len(meal_ids))

\* faulty variant: the rows are joined to the list of ids, so the rows of a
\* meal come once for each time its id is in the list
SelectedPairsPerOccurrence(db, meal_ids) ==
    JoinPairs(db, IdSet(meal_ids))
        \o SelectSeq(JoinPairs(db, IdSet(meal_ids)), LAMBDA p :
               Cardinality({i \in DOMAIN meal_ids :
                              meal_ids[i] = p.meal_ingredient.meal_id}) > 1)

\* .where(MealIngredient.meal_id.in_(meal_ids))
SelectedPairs(db, meal_ids) == JoinPairs(db, IdSet(meal_ids))

\* key = (ingredient.name, meal_ingredient.unit, ingredient.category)
TotalsKey(pair) ==
    <<pair.ingredient.name, pair.meal_ingredient.unit, pair.ingredient.category>>

\* faulty variant: the totals are keyed by the ingredient name alone
AddToTotalsByName(totals, pair) ==
    IF \E i \in DOMAIN totals : totals[i].key[1] = TotalsKey(pair)[1]
    THEN [i \in DOMAIN totals |->
            IF totals[i].key[1] = TotalsKey(pair)[1]
            THEN [totals[i] EXCEPT
                    !.quantity = @ + pair.meal_ingredient.quantity]
            ELSE totals[i]]
    ELSE Append(totals, [key |-> TotalsKey(pair),
                         quantity |-> pair.meal_ingredient.quantity])

\* ingredient_totals[key] += quantity, or a new key at the end of the dict;
\* the dict is the sequence of its (key, quantity) items in insertion order
AddToTotals(totals, pair) ==
    IF \E i \in DOMAIN totals : totals[i].key = TotalsKey(pair)
    THEN [i \in DOMAIN totals |->
            IF totals[i].key = TotalsKey(pair)
            THEN [totals[i] EXCEPT
                    !.quantity = @ + pair.meal_ingredient.quantity]
            ELSE totals[i]]
    ELSE Append(totals, [key |-> TotalsKey(pair),
                         quantity |-> pair.meal_ingredient.quantity])

RECURSIVE Totals(_, _)
Totals(pairs, i) ==
    IF i = 0 THEN <<>> ELSE AddToTotals(Totals(pairs, i - 1), pairs[i])

\* (name, quantity, unit, category) for each item of the dict
ShoppingTuples(totals) ==
    [i \in DOMAIN totals |->
        <<totals[i].key[1], totals[i].quantity, totals[i].key[2],
          totals[i].key[3]>>]

\* Python's < on str: by code point, a proper prefix first
StrLess(a, b) ==
    \/ Len(a) < Len(b) /\ SubSeq(b, 1, Len(a)) = a
    \/ \E i \in 1..Len(a) :
          /\ i <= Len(b)
          /\ SubSeq(a, 1, i - 1) = SubSeq(b, 1, i - 1)
          /\ a[i] < b[i]

\* faulty variant: the name is compared as written
get_category_order_raw(item) ==
    <<CategoryValue(from_string(item[4])), item[1]>>

\* (category.value, name.lower())
get_category_order(item) ==
    <<CategoryValue(from_string(item[4])), Lower(item[1])>>

\* Python's < on the key tuples
KeyLess(k1, k2) ==
    k1[1] < k2[1] \/ (k1[1] = k2[1] /\ StrLess(k1[2], k2[2]))

\* item put behind every item of the sorted list whose key is not greater
InsertSorted(sorted, item) ==
    LET n == Cardinality({i \in DOMAIN sorted :
                  ~KeyLess(get_category_order(item),
                           get_category_order(sorted[i]))})
    IN  SubSeq(sorted, 1, n) \o <<item>> \o SubSeq(sorted, n + 1, Len(sorted))

\* list.sort(key=get_category_order): a stable sort
RECURSIVE SortByCategory(_, _)
SortByCategory(list, i) ==
    IF i = 0 THEN <<>>
    ELSE InsertSorted(SortByCategory(list, i - 1), list[i])

generate_shopping_list(db, meal_ids) ==
    IF meal_ids = <<>>
    THEN <<>>
    ELSE LET results == SelectedPairs(db, meal_ids)
             shopping_list == ShoppingTuples(Totals(results, Len(results)))
         IN  SortByCategory(shopping_list, Len(shopping_list))

(* ---------------------------- state machine ---------------------------- *)
db == Store(meals, ingredients, links)

\* what the caller and an observer of the store saw of the last call
Call(op, name, r) ==
    [op |-> op, name |-> name,
     ret |-> r.ret, err |-> r.st.err]

\* the call returns (or raises): the store is what the session committed
Apply(op, name, result) ==
    \E r \in {result} :
        /\ meals' = r.st.com.meals
        /\ ingredients' = r.st.com.ingredients
        /\ links' = r.st.com.links
        /\ last' = Call(op, name, r)
        /\ UNCHANGED sessions

Init ==
    /\ meals = {}
    /\ ingredients = {}
    /\ links = <<>>
    /\ last = [op |-> "init", name |-> <<>>, ret |-> 0,
               err |-> "ok"]
    /\ sessions = <<>>

AddMeal ==
    \E name \in MealNames, meta \in Metas, ings \in IngredientLists,
       failAt \in FailPoints :
        /\ FindMeal(meals, name) # {} \/ Cardinality(meals) < MaxMeals
        /\ Apply("add_meal", name, add_meal(db, name, meta, ings, failAt))

UpdateMeal ==
    \E meal_id \in MealIds, name \in MealNames, meta \in Metas,
       ings \in IngredientLists, failAt \in FailPoints :
        Apply("update_meal", <<>>,
              update_meal(db, meal_id, name, meta, ings, failAt))

DeleteMeal ==
    \E meal_id \in MealIds, failAt \in FailPoints :
        Apply("delete_meal", <<>>, delete_meal(db, meal_id, failAt))

CleanupUnusedIngredients ==
    \E failAt \in FailPoints :
        Apply("cleanup_unused_ingredients", <<>>,
              cleanup_unused_ingredients(db, failAt))

Next ==
    \/ AddMeal
    \/ UpdateMeal
    \/ DeleteMeal
    \/ CleanupUnusedIngredients

Spec == Init /\ [][Next]_vars

(* ---------------------------- shopping list ---------------------------- *)
\* Stores the program can build, for the shopping list: two meals, three
\* ingredients ("B", "a", "c") of which one has an unrecognised category and
\* one a category written as a label, and up to MaxShopLinks links.  The links
\* of a meal are inserted by one call, so they are next to each other.
ShopMeals ==
    {[id |-> 1, name |-> <<80>>, description |-> "d", recipe_link |-> "l",
      notes |-> "n"],
     [id |-> 2, name |-> <<82>>, description |-> "d", recipe_link |-> "l",
      notes |-> "n"]}
ShopIngredients ==
    {[id |-> 1, name |-> <<66>>, category |-> "NOT_SURE"],
     [id |-> 2, name |-> <<97>>, category |-> "zzz"],
     [id |-> 3, name |-> <<99>>, category |-> "Dry Food"]}
ShopLinkRows ==
    {[meal_id |-> m, ingredient_id |-> g, quantity |-> qu[1], unit |-> qu[2]] :
        m \in Ids(ShopMeals), g \in Ids(ShopIngredients),
        qu \in {<<1, "g">>, <<2, "g">>, <<1, "cup">>}}
Contiguous(rows) ==
    \A i \in DOMAIN rows, j \in DOMAIN rows, k \in DOMAIN rows :
        (i < j /\ j < k /\ rows[i].meal_id = rows[k].meal_id)
            => rows[j].meal_id = rows[i].meal_id
ShopLinks ==
    {rows \in UNION {[1..n -> ShopLinkRows] : n \in 0..MaxShopLinks} :
        Contiguous(rows)}
\* lists of meal ids: existing and missing ids, repeated ids, both orders
ShopIdLists == UNION {[1..n -> 1..3] : n \in 0..2}

InitShop ==
    /\ meals = ShopMeals
    /\ ingredients = ShopIngredients
    /\ links \in ShopLinks
    /\ last = [op |-> "init", name |-> <<>>, ret |-> 0, err |-> "ok"]
    /\ sessions = <<>>

GenerateShoppingList ==
    \E meal_ids \in ShopIdLists :
        /\ last' = [op |-> "generate_shopping_list", name |-> <<>>,
                    ret |-> generate_shopping_list(db, meal_ids),
                    err |-> "ok", meal_ids |-> meal_ids]
        /\ UNCHANGED <<meals, ingredients, links, sessions>>

\* a read of one meal's ingredient lines
GetMealIngredients ==
    \E meal_id \in MealIds :
        /\ last' = [op |-> "get_meal_ingredients", name |-> <<>>,
                    ret |-> get_meal_ingredients(db, meal_id),
                    err |-> "ok", meal_id |-> meal_id]
        /\ UNCHANGED <<meals, ingredients, links, sessions>>

NextShop ==
    \/ GenerateShoppingList
    \/ GetMealIngredients

SpecShop == InitShop /\ [][NextShop]_vars

\* cleanup_unused_ingredients called, once or repeatedly, on the stores above,
\* which hold between no and three ingredients that no link references
NextCleanup == CleanupUnusedIngredients

SpecCleanup == InitShop /\ [][NextCleanup]_vars

(* ---------------------------- category strings ------------------------ *)
\* the strings Category.from_string is applied to: None, every string of at
\* most MaxStr characters of CategoryAlphabet (the empty string, whitespace
\* only, "cans", "Cans", ... among them), "totally-unknown-xyz", and every
\* Category name and display name in every letter case, with at most MaxPad
\* whitespace characters before and behind it
PadChars == {32, 9}
CategoryAlphabet == {32, 9, 45, 95, 67, 65, 78, 83, 97, 110, 115}
Strings(alphabet, n) == UNION {[1..k -> alphabet] : k \in 0..n}
LetterCases(cs) ==
    {[i \in DOMAIN cs |-> IF i \in S THEN LowerChar(cs[i]) ELSE cs[i]] :
        S \in SUBSET DOMAIN cs}
Padded(S) ==
    {l \o cs \o r : l \in Strings(PadChars, MaxPad), cs \in S,
                    r \in Strings(PadChars, MaxPad)}
\* "totally-unknown-xyz"
TotallyUnknown ==
    <<116, 111, 116, 97, 108, 108, 121, 45, 117, 110, 107, 110, 111, 119, 110,
      45, 120, 121, 122>>
CategorySpellings(c) ==
    Padded(LetterCases(Ascii(c)) \cup LetterCases(Upper(display_name(c))))
\* the argument: None or the str of characters chars; spelling_of is the
\* Category the string was written from, None for the free strings
Input(is_none, chars, c) ==
    [op |-> "input", name |-> <<>>, ret |-> 0, err |-> "ok",
     category_str |-> [is_none |-> is_none, chars |-> chars, spelling_of |-> c]]

InitCategory ==
    /\ meals = {}
    /\ ingredients = {}
    /\ links = <<>>
    /\ sessions = <<>>
    /\ \/ last = Input(TRUE, <<>>, None)
       \/ \E cs \in Strings(CategoryAlphabet, MaxStr) \cup {TotallyUnknown} :
             last = Input(FALSE, cs, None)
       \/ \E c \in CategoryNames :
             \E cs \in CategorySpellings(c) : last = Input(FALSE, cs, c)

\* Category.from_string(category_str); a KeyError that leaves the function
\* is the error of the call
FromString ==
    /\ last.op = "input"
    /\ \E r \in {IF last.category_str.is_none THEN from_string(None)
                  ELSE from_chars(last.category_str.chars)} :
          last' = [last EXCEPT !.op = "from_string",
                               !.ret = r,
                               !.err = IF r = "KeyError" THEN r ELSE "ok"]
    /\ UNCHANGED <<meals, ingredients, links, sessions>>

NextCategory == FromString

SpecCategory == InitCategory /\ [][NextCategory]_vars

(* ---------------------------- interleaved add_meal calls --------------- *)
\* Two add_meal calls run at the same time, each in its own Session on its
\* own connection.  A step is one query or one commit of one call.  A query
\* reads the committed tables and the rows the call itself has flushed; a
\* SELECT opens no transaction under the sqlite3 driver.  Rows added to the
\* Session are INSERTed by the autoflush before the next query (flushed) and
\* the connection then holds the write lock of the database file until its
\* next commit; another connection that wants to write meanwhile waits, and
\* raises OperationalError (database is locked) when the wait times out.
Procs == {1, 2}
\* "P", "p"
InterleavedNames == {<<80>>, <<112>>}

\* the call add_meal(name, *meta, ings) before its first query
NewSession(name, meta, ings) ==
    [pc |-> "find_meal", name |-> name, meta |-> meta, ings |-> ings,
     i |-> 1, meal_id |-> 0, ingredient_id |-> 0,
     pending |-> <<>>, flushed |-> <<>>, ret |-> 0, err |-> "ok"]

\* the call returns ret or raises err; what it had not committed is dropped
EndSession(s, ret, err) ==
    [s EXCEPT !.pc = "done", !.ret = ret, !.err = err,
              !.pending = <<>>, !.flushed = <<>>]

\* another connection holds the write lock
Locked(p) == \E q \in Procs \ {p} : sessions[q].flushed # <<>>

\* the query autoflushes: the rows added to the Session are INSERTed
Autoflush(s) == [s EXCEPT !.flushed = @ \o s.pending, !.pending = <<>>]

InitInterleaved ==
    /\ meals = {}
    /\ ingredients = {}
    /\ links = <<>>
    /\ last = [op |-> "init", name |-> <<>>, ret |-> 0, err |-> "ok"]
    /\ sessions \in [Procs -> {NewSession(name, meta, ings) :
                                  name \in InterleavedNames, meta \in Metas,
                                  ings \in IngredientLists}]

\* existing_meal = session.exec(select(Meal).where(lower(name) == ...)).first()
FindMealQuery(p) ==
    LET s == sessions[p]
        existing == FindMeal(meals, s.name)
    IN  /\ s.pc = "find_meal"
        /\ sessions' = [sessions EXCEPT ![p] =
              IF existing # {}
              THEN EndSession(s, First(existing).id, "ok")
              ELSE [s EXCEPT !.pc = "insert_meal"]]
        /\ UNCHANGED <<meals, ingredients, links, last>>

\* session.add(meal); session.commit(): UNIQUE (name) is checked by the INSERT
InsertMealCommit(p) ==
    LET s == sessions[p]
        meal_id == NextId(meals)
    IN  /\ s.pc = "insert_meal"
        /\ ~Locked(p)
        /\ IF \E m \in meals : m.name = s.name
           THEN /\ sessions' = [sessions EXCEPT ![p] =
                                   EndSession(s, -1, "IntegrityError")]
                /\ UNCHANGED meals
           ELSE /\ meals' = meals \cup
                      {[id |-> meal_id, name |-> s.name,
                        description |-> s.meta[1], recipe_link |-> s.meta[2],
                        notes |-> s.meta[3]]}
                /\ sessions' = [sessions EXCEPT ![p] =
                      IF s.ings = <<>>
                      THEN EndSession(s, meal_id, "ok")
                      ELSE [s EXCEPT !.pc = "find_ingredient",
                                     !.meal_id = meal_id]]
        /\ UNCHANGED <<ingredients, links, last>>

\* the arity check of the tuple, then
\* ingredient = session.exec(select(Ingredient).where(lower(name) == ...)).first()
FindIngredientQuery(p) ==
    LET s == sessions[p]
        t == s.ings[s.i]
        found == FindIngredient(ingredients, t[1])
    IN  /\ s.pc = "find_ingredient"
        /\ (ValidTuple(t) /\ s.pending # <<>>) => ~Locked(p)
        /\ sessions' = [sessions EXCEPT ![p] =
              IF ~ValidTuple(t) THEN EndSession(s, -1, "ValueError")
              ELSE IF found # {}
              THEN [Autoflush(s) EXCEPT !.pc = "find_relationship",
                                        !.ingredient_id = First(found).id]
              ELSE [Autoflush(s) EXCEPT !.pc = "insert_ingredient"]]
        /\ UNCHANGED <<meals, ingredients, links, last>>

\* session.add(ingredient); session.commit(): UNIQUE (name) is checked by the
\* INSERT; the commit also commits the links flushed so far
InsertIngredientCommit(p) ==
    LET s == sessions[p]
        t == s.ings[s.i]
        id == NextId(ingredients)
    IN  /\ s.pc = "insert_ingredient"
        /\ ~Locked(p)
        /\ IF \E g \in ingredients : g.name = t[1]
           THEN /\ sessions' = [sessions EXCEPT ![p] =
                                   EndSession(s, -1, "IntegrityError")]
                /\ UNCHANGED <<ingredients, links>>
           ELSE /\ ingredients' = ingredients \cup
                      {[id |-> id, name |-> t[1],
                        category |-> NewCategory(TupleCategory(t))]}
                /\ links' = links \o s.flushed \o s.pending
                /\ sessions' = [sessions EXCEPT ![p] =
                      [s EXCEPT !.pc = "find_relationship",
                                !.ingredient_id = id,
                                !.flushed = <<>>, !.pending = <<>>]]
        /\ UNCHANGED <<meals, last>>

\* existing_relationship = session.exec(select(MealIngredient).where(...)).first()
\* and, when there is none, session.add(meal_ingredient); then the next tuple
FindRelationshipQuery(p) ==
    LET s == Autoflush(sessions[p])
        t == s.ings[s.i]
        existing_relationship ==
            {l \in Rows(links \o s.flushed) :
                l.meal_id = s.meal_id /\ l.ingredient_id = s.ingredient_id}
        meal_ingredient ==
            [meal_id |-> s.meal_id, ingredient_id |-> s.ingredient_id,
             quantity |-> t[2], unit |-> t[3]]
    IN  /\ sessions[p].pc = "find_relationship"
        /\ sessions[p].pending # <<>> => ~Locked(p)
        /\ sessions' = [sessions EXCEPT ![p] =
              [s EXCEPT !.pending = IF existing_relationship # {} THEN @
                                    ELSE Append(@, meal_ingredient),
                        !.i = @ + 1,
                        !.pc = IF s.i + 1 > Len(s.ings) THEN "final_commit"
                               ELSE "find_ingredient"]]
        /\ UNCHANGED <<meals, ingredients, links, last>>

\* the session.commit() after the loop; return meal_id
FinalCommit(p) ==
    LET s == sessions[p]
    IN  /\ s.pc = "final_commit"
        /\ ~Locked(p)
        /\ links' = links \o s.flushed \o s.pending
        /\ sessions' = [sessions EXCEPT ![p] = EndSession(s, s.meal_id, "ok")]
        /\ UNCHANGED <<meals, ingredients, last>>

\* the call has rows to write while another connection holds the write lock,
\* and the wait for the lock times out
LockTimeout(p) ==
    LET s == sessions[p]
    IN  /\ Locked(p)
        /\ \/ s.pc \in {"insert_meal", "insert_ingredient", "final_commit"}
           \/ s.pc \in {"find_ingredient", "find_relationship"}
                 /\ s.pending # <<>>
        /\ sessions' = [sessions EXCEPT ![p] =
                           EndSession(s, -1, "OperationalError")]
        /\ UNCHANGED <<meals, ingredients, links, last>>

NextInterleaved ==
    \E p \in Procs :
        \/ FindMealQuery(p)
        \/ InsertMealCommit(p)
        \/ FindIngredientQuery(p)
        \/ InsertIngredientCommit(p)
        \/ FindRelationshipQuery(p)
        \/ FinalCommit(p)
        \/ LockTimeout(p)

SpecInterleaved == InitInterleaved /\ [][NextInterleaved]_vars

(* ---------------------------- unvalidated arguments -------------------- *)
\* add_meal and update_meal called with arguments the form of the web page
\* would not send: an empty meal name, a quantity that is not positive
\* "P", ""
AnyMealNames == {<<80>>, <<>>}
\* "G" 0 g, "G" 2 g, "g" -1 g
AnyEntries == {<<(<<71>>), 0, "g">>, <<(<<71>>), 2, "g">>, <<(<<103>>), -1, "g">>}
AnyIngredientLists == UNION {[1..n -> AnyEntries] : n \in 0..MaxIngs}

AddMealAnyInput ==
    \E name \in AnyMealNames, meta \in Metas, ings \in AnyIngredientLists :
        /\ FindMeal(meals, name) # {} \/ Cardinality(meals) < MaxMeals
        /\ Apply("add_meal", name, add_meal(db, name, meta, ings, 0))

UpdateMealAnyInput ==
    \E meal_id \in MealIds, name \in AnyMealNames, meta \in Metas,
       ings \in AnyIngredientLists :
        Apply("update_meal", name,
              update_meal(db, meal_id, name, meta, ings, 0))

NextAnyInput ==
    \/ AddMealAnyInput
    \/ UpdateMealAnyInput

SpecAnyInput == Init /\ [][NextAnyInput]_vars

(* ---------------------------- import_meals_from_csv ------------------- *)
\* the dict literals of normalize_unit and normalize_category, as their
\* (key, value) items; a unit value is written as the expression that gives it
unit_mapping ==
    <<
       <<(<<103, 114, 97, 109, 115>>), "Unit.GRAM.value">>,
       <<(<<103, 114, 97, 109>>), "Unit.GRAM.value">>,
       <<(<<103>>), "Unit.GRAM.value">>,
       <<(<<107, 103>>), "Unit.KILOGRAM.value">>,
       <<(<<107, 105, 108, 111, 103, 114, 97, 109>>), "Unit.KILOGRAM.value">>,
       <<(<<107, 105, 108, 111, 103, 114, 97, 109, 115>>), "Unit.KILOGRAM.value">>,
       <<(<<109, 108>>), "Unit.MILLILITRE.value">>,
       <<(<<109, 105, 108, 108, 105, 108, 105, 116, 114, 101>>), "Unit.MILLILITRE.value">>,
       <<(<<109, 105, 108, 108, 105, 108, 105, 116, 114, 101, 115>>), "Unit.MILLILITRE.value">>,
       <<(<<108>>), "Unit.LITRE.value">>,
       <<(<<108, 105, 116, 114, 101>>), "Unit.LITRE.value">>,
       <<(<<108, 105, 116, 114, 101, 115>>), "Unit.LITRE.value">>,
       <<(<<108, 105, 116, 114, 101, 40, 115, 41>>), "Unit.LITRE.value">>,
       <<(<<116, 115, 112>>), "Unit.TEASPOON.value">>,
       <<(<<116, 101, 97, 115, 112, 111, 111, 110>>), "Unit.TEASPOON.value">>,
       <<(<<116, 101, 97, 115, 112, 111, 111, 110, 115>>), "Unit.TEASPOON.value">>,
       <<(<<116, 98, 115, 112>>), "Unit.TABLESPOON.value">>,
       <<(<<116, 97, 98, 108, 101, 115, 112, 111, 111, 110>>), "Unit.TABLESPOON.value">>,
       <<(<<116, 97, 98, 108, 101, 115, 112, 111, 111, 110, 115>>), "Unit.TABLESPOON.value">>,
       <<(<<99, 117, 112>>), "Unit.CUP.value">>,
       <<(<<99, 117, 112, 115>>), "Unit.CUP.value">>,
       <<(<<105, 116, 101, 109, 40, 115, 41>>), "Unit.ITEM.value">>,
       <<(<<105, 116, 101, 109>>), "Unit.ITEM.value">>,
       <<(<<105, 116, 101, 109, 115>>), "Unit.ITEM.value">>,
       <<(<<112, 105, 101, 99, 101>>), "Unit.ITEM.value">>,
       <<(<<112, 105, 101, 99, 101, 115>>), "Unit.ITEM.value">>,
       <<(<<99, 108, 111, 118, 101>>), "Unit.CLOVE.value">>,
       <<(<<99, 108, 111, 118, 101, 115>>), "Unit.CLOVE.value">>,
       <<(<<99, 108, 111, 118, 101, 115, 32, 111, 102, 32, 103, 97, 114, 108, 105, 99>>), "Unit.CLOVE.value">>,
       <<(<<99, 109>>), "Unit.CENTIMETRE.value">>,
       <<(<<99, 101, 110, 116, 105, 109, 101, 116, 114, 101>>), "Unit.CENTIMETRE.value">>,
       <<(<<99, 101, 110, 116, 105, 109, 101, 116, 114, 101, 115>>), "Unit.CENTIMETRE.value">>,
       <<(<<112, 105, 110, 99, 104>>), "Unit.PINCH.value">>,
       <<(<<112, 105, 110, 99, 104, 101, 115>>), "Unit.PINCH.value">>,
       <<(<<100, 97, 115, 104>>), "Unit.DASH.value">>,
       <<(<<100, 97, 115, 104, 101, 115>>), "Unit.DASH.value">>,
       <<(<<99, 97, 110>>), "Unit.CAN.value">>,
       <<(<<99, 97, 110, 115>>), "Unit.CAN.value">>,
       <<(<<106, 97, 114>>), "Unit.JAR.value">>,
       <<(<<106, 97, 114, 115>>), "Unit.JAR.value">>,
       <<(<<98, 111, 116, 116, 108, 101>>), "Unit.BOTTLE.value">>,
       <<(<<98, 111, 116, 116, 108, 101, 115>>), "Unit.BOTTLE.value">>,
       <<(<<112, 97, 99, 107, 101, 116>>), "Unit.PACKET.value">>,
       <<(<<112, 97, 99, 107, 101, 116, 115>>), "Unit.PACKET.value">>,
       <<(<<98, 97, 103>>), "Unit.BAG.value">>,
       <<(<<98, 97, 103, 115>>), "Unit.BAG.value">>,
       <<(<<104, 101, 97, 100>>), "Unit.HEAD.value">>,
       <<(<<104, 101, 97, 100, 115>>), "Unit.HEAD.value">>,
       <<(<<98, 117, 110, 99, 104>>), "Unit.BUNCH.value">>,
       <<(<<98, 117, 110, 99, 104, 101, 115>>), "Unit.BUNCH.value">>,
       <<(<<115, 116, 97, 108, 107>>), "Unit.STALK.value">>,
       <<(<<115, 116, 97, 108, 107, 115>>), "Unit.STALK.value">>,
       <<(<<115, 116, 105, 99, 107, 115>>), "Unit.STALK.value">>,
       <<(<<108, 101, 97, 102>>), "Unit.LEAF.value">>,
       <<(<<108, 101, 97, 118, 101, 115>>), "Unit.LEAVES.value">>,
       <<(<<115, 104, 101, 101, 116, 115>>), "Unit.ITEM.value">>,
       <<(<<114, 97, 115, 104, 101, 114, 115>>), "Unit.ITEM.value">>,
       <<(<<115, 112, 114, 105, 103, 115>>), "Unit.BUNCH.value">>,
       <<(<<98, 117, 108, 98>>), "Unit.ITEM.value">>,
       <<(<<112, 117, 110, 110, 101, 116>>), "Unit.PACKET.value">>,
       <<(<<110, 97, 110>>), "Unit.ITEM.value">>
    >>

category_mapping ==
    <<
       <<(<<118, 101, 103, 101, 116, 97, 98, 108, 101, 115>>), "VEGETABLES">>,
       <<(<<98, 97, 107, 101, 114, 121>>), "BAKERY">>,
       <<(<<102, 114, 105, 100, 103, 101>>), "FRIDGE">>,
       <<(<<100, 114, 121, 32, 102, 111, 111, 100>>), "DRY_FOOD">>,
       <<(<<97, 115, 105, 97, 110>>), "ASIAN">>,
       <<(<<99, 97, 110, 115>>), "CANS">>,
       <<(<<115, 112, 105, 99, 101, 115>>), "SPICES">>,
       <<(<<116, 114, 101, 97, 116, 115>>), "TREATS">>,
       <<(<<110, 111, 116, 32, 115, 117, 114, 101>>), "NOT_SURE">>,
       <<(<<98, 97, 107, 105, 110, 103>>), "BAKING">>,
       <<(<<102, 114, 111, 122, 101, 110>>), "FROZEN">>,
       <<(<<111, 114, 103, 97, 110, 105, 99, 32, 115, 116, 111, 114, 101>>), "ORGANIC_STORE">>,
       <<(<<109, 101, 97, 116, 32, 102, 114, 105, 100, 103, 101>>), "MEAT_FRIDGE">>,
       <<(<<97, 108, 99, 111, 104, 111, 108>>), "ALCOHOL">>,
       <<(<<111, 116, 104, 101, 114>>), "OTHER">>
    >>

\* dict.get(key, None)
MappingGet(mapping, key) ==
    IF \E i \in DOMAIN mapping : mapping[i][1] = key
    THEN mapping[CHOOSE i \in DOMAIN mapping : mapping[i][1] = key][2]
    ELSE None

\* faulty variant: a string without mapping gives the default unit
normalize_unit_default(unit_str) ==
    IF unit_str = <<>> \/ Strip(unit_str) = <<>>
    THEN "Unit.ITEM.value"
    ELSE LET mapped_unit == MappingGet(unit_mapping, Lower(Strip(unit_str)))
         IN  IF mapped_unit # None THEN mapped_unit ELSE "Unit.ITEM.value"

\* normalize_unit: the unit value, or "ValueError" when it raises
normalize_unit(unit_str) ==
    IF unit_str = <<>> \/ Strip(unit_str) = <<>>
    THEN "Unit.ITEM.value"
    ELSE LET mapped_unit == MappingGet(unit_mapping, Lower(Strip(unit_str)))
         IN  IF mapped_unit # None THEN mapped_unit ELSE "ValueError"

\* normalize_category: the Category name, or "ValueError" when it raises
normalize_category(category_str) ==
    IF category_str = <<>> \/ Strip(category_str) = <<>>
    THEN "NOT_SURE"
    ELSE LET mapped_category ==
                 MappingGet(category_mapping, Lower(Strip(category_str)))
         IN  IF mapped_category # None THEN mapped_category ELSE "ValueError"

\* "nan": str() of a cell pandas read as missing
Nan == <<110, 97, 110>>

\* the row is skipped: meal or ingredient name missing
SkippedRow(row) ==
    \/ Strip(row.Meal) = <<>> \/ Strip(row.Ingredient) = <<>>
    \/ Strip(row.Meal) = Nan \/ Strip(row.Ingredient) = Nan

\* a quantity that is not positive is replaced by 1.0
RowQuantity(row) == IF row.Quantity <= 0 THEN 1 ELSE row.Quantity

\* meals_data[meal_name].append(ingredient_data); meals_data is the sequence
\* of its (meal_name, ingredients) items in insertion order
AppendIngredient(meals_data, meal_name, ingredient_data) ==
    IF \E i \in DOMAIN meals_data : meals_data[i][1] = meal_name
    THEN [i \in DOMAIN meals_data |->
            IF meals_data[i][1] = meal_name
            THEN <<meal_name, Append(meals_data[i][2], ingredient_data)>>
            ELSE meals_data[i]]
    ELSE Append(meals_data, <<meal_name, <<ingredient_data>> >>)

\* one iteration of `for index, row in df.iterrows()`
ProcessRow(acc, row) ==
    IF SkippedRow(row) THEN acc
    ELSE IF normalize_unit(Strip(row.Unit)) = "ValueError"
    THEN [acc EXCEPT !.unknown_units = TRUE]
    ELSE IF normalize_category(Strip(row.Category)) = "ValueError"
    THEN [acc EXCEPT !.unknown_categories = TRUE]
    ELSE [acc EXCEPT !.meals_data =
             AppendIngredient(@, Strip(row.Meal),
                <<Strip(row.Ingredient), RowQuantity(row),
                  normalize_unit(Strip(row.Unit)),
                  normalize_category(Strip(row.Category))>>)]

RECURSIVE ProcessRows(_, _)
ProcessRows(rows, i) ==
    IF i = 0
    THEN [meals_data |-> <<>>, unknown_units |-> FALSE,
          unknown_categories |-> FALSE]
    ELSE ProcessRow(ProcessRows(rows, i - 1), rows[i])

\* `for meal_name, ingredients in meals_data.items()`: one add_meal call per
\* meal; store is the store after the first i calls, success_count the calls
\* that returned an id
RECURSIVE InsertMeals(_, _, _)
InsertMeals(store, meals_data, i) ==
    IF i = 0
    THEN [store |-> store, success_count |-> 0]
    ELSE LET before == InsertMeals(store, meals_data, i - 1)
             r == add_meal(before.store, meals_data[i][1], <<"", None, None>>,
                           meals_data[i][2], 0)
         IN  [store |-> r.st.com,
              success_count |-> before.success_count
                                   + (IF r.st.err = "ok" THEN 1 ELSE 0)]

\* import_meals_from_csv: the store it leaves and the number of meals it
\* reports as imported (-1 when it stops before the database import)
import_meals_from_csv(store, rows) ==
    LET acc == ProcessRows(rows, Len(rows))
    IN  IF acc.unknown_units \/ acc.unknown_categories
        THEN [store |-> store, success_count |-> -1]
        ELSE InsertMeals(store, acc.meals_data, Len(acc.meals_data))

\* the cells of a CSV file: meals "P" and "R"; ingredient "G" or missing;
\* quantity 0 or 2; units " Grams", "nan" (a missing cell) and "handful";
\* categories "", "Dry Food " and "zzz".  known tells whether the string is
\* in the vocabulary.
UnitCells ==
    {[chars |-> <<32, 71, 114, 97, 109, 115>>, known |-> TRUE],
     [chars |-> Nan, known |-> TRUE],
     [chars |-> <<104, 97, 110, 100, 102, 117, 108>>, known |-> FALSE]}
CategoryCells ==
    {[chars |-> <<>>, known |-> TRUE],
     [chars |-> <<68, 114, 121, 32, 70, 111, 111, 100, 32>>, known |-> TRUE],
     [chars |-> <<122, 122, 122>>, known |-> FALSE]}
CsvRows ==
    {[Meal |-> m, Ingredient |-> g, Quantity |-> q, Unit |-> u.chars,
      Category |-> c.chars, known |-> u.known /\ c.known] :
        m \in {<<80>>, <<82>>}, g \in {<<71>>, <<>>}, q \in {0, 2},
        u \in UnitCells, c \in CategoryCells}
CsvFiles == UNION {[1..n -> CsvRows] : n \in 0..MaxRows}

ImportMealsFromCsv ==
    /\ last.op = "init"
    /\ \E rows \in CsvFiles :
          \E r \in {import_meals_from_csv(db, rows)} :
             /\ meals' = r.store.meals
             /\ ingredients' = r.store.ingredients
             /\ links' = r.store.links
             /\ last' = [op |-> "import_meals_from_csv", name |-> <<>>,
                         ret |-> r.success_count, err |-> "ok", rows |-> rows]
             /\ UNCHANGED sessions

NextImport == ImportMealsFromCsv

SpecImport == Init /\ [][NextImport]_vars

(* ======================================================================= *)
(* Properties                                                              *)
(* ======================================================================= *)
StoreVars == <<meals, ingredients, links>>

\* C1: no two Meal rows have names that are equal case-insensitively.
C1_MealNamesUnique ==
    \A m1 \in meals, m2 \in meals :
        Lower(m1.name) = Lower(m2.name) => m1.id = m2.id

\* C2: there is at most one MealIngredient row per (meal, ingredient) pair.
C2_OneLinkPerPair ==
    \A i \in DOMAIN links, j \in DOMAIN links :
        (/\ links[i].meal_id = links[j].meal_id
         /\ links[i].ingredient_id = links[j].ingredient_id) => i = j

\* C3: a call of add_meal or update_meal that raises the arity error
\* (ValueError) leaves meals, ingredients and links as they were.
C3_ArityErrorWritesNothing ==
    [][last'.err = "ValueError" => UNCHANGED StoreVars]_vars

\* the step is the call whose result is r
Applied(op, name, r) ==
    /\ last' = Call(op, name, r)
    /\ meals' = r.st.com.meals
    /\ ingredients' = r.st.com.ingredients
    /\ links' = r.st.com.links

\* C4: every store committed in the course of an add_meal, update_meal or
\* delete_meal call is the store before the call or the store after it.
C4_Atomic ==
    [][/\ \A name \in MealNames, meta \in Metas, ings \in IngredientLists,
             failAt \in FailPoints :
             LET r == add_meal(db, name, meta, ings, failAt)
             IN  Applied("add_meal", name, r)
                    => r.st.obs \subseteq {db, r.st.com}
       /\ \A meal_id \in MealIds, name \in MealNames, meta \in Metas,
             ings \in IngredientLists, failAt \in FailPoints :
             LET r == update_meal(db, meal_id, name, meta, ings, failAt)
             IN  Applied("update_meal", <<>>, r)
                    => r.st.obs \subseteq {db, r.st.com}
       /\ \A meal_id \in MealIds, failAt \in FailPoints :
             LET r == delete_meal(db, meal_id, failAt)
             IN  Applied("delete_meal", <<>>, r)
                    => r.st.obs \subseteq {db, r.st.com}]_vars

\* C5: a call of add_meal, update_meal or delete_meal that ends in a storage
\* error (IntegrityError, OperationalError) leaves the store as it was.
C5_StorageErrorRollsBack ==
    [][(/\ last'.op \in {"add_meal", "update_meal", "delete_meal"}
        /\ last'.err \in {"IntegrityError", "OperationalError"})
          => UNCHANGED StoreVars]_vars

\* C6: when add_meal returns twice in a row for names equal case-insensitively,
\* the second call returns the id the first returned and the meal has no more
\* links after the second call than after the first.
C6_AddMealIdempotent ==
    [][(/\ last.op = "add_meal" /\ last.err = "ok"
        /\ last'.op = "add_meal" /\ last'.err = "ok"
        /\ Lower(last.name) = Lower(last'.name))
          => (/\ last'.ret = last.ret
              /\ Len(MealLinks(links', last.ret))
                    <= Len(MealLinks(links, last.ret)))]_vars

\* an add_meal call returned the id of a meal stored under another spelling
C6_Witness ==
    /\ last.op = "add_meal" /\ last.err = "ok"
    /\ \E m \in meals :
          m.id = last.ret /\ m.name # last.name /\ MealLinks(links, m.id) # <<>>

\* C7: add_meal called with a name that exists case-insensitively changes no
\* Meal, Ingredient or MealIngredient row.
C7_AddExistingNoMutation ==
    [][(last'.op = "add_meal" /\ FindMeal(meals, last'.name) # {})
          => UNCHANGED StoreVars]_vars

\* add_meal met an existing meal while no ingredient and no link is stored
C7_Witness ==
    /\ last.op = "add_meal" /\ last.err = "ok"
    /\ \E m \in meals : m.id = last.ret /\ m.name # last.name
    /\ ingredients = {} /\ links = <<>>

\* C8: no two Ingredient rows have names that are equal case-insensitively.
C8_IngredientNamesUnique ==
    \A g1 \in ingredients, g2 \in ingredients :
        Lower(g1.name) = Lower(g2.name) => g1.id = g2.id

\* the entry named "g" (quantity 2) is linked to the row named "G"
C8_Witness ==
    \E g \in ingredients, l \in Rows(links) :
        g.name = <<71>> /\ l.ingredient_id = g.id /\ l.quantity = 2

\* C9: every MealIngredient row references a Meal row and an Ingredient row
\* that exist.
C9_ReferentialIntegrity ==
    \A l \in Rows(links) :
        l.meal_id \in Ids(meals) /\ l.ingredient_id \in Ids(ingredients)

\* a meal with links was deleted while another meal keeps its links
C9_Witness ==
    /\ last.op = "delete_meal" /\ last.ret = True
    /\ links # <<>>
    /\ Cardinality(meals) < MaxMeals

\* C10: the category of every Ingredient row is the name of a Category.
C10_CategoryValid ==
    \A g \in ingredients : g.category \in CategoryNames

\* the links the list last.meal_ids selects, by their position in the table
SelectedLinks == {i \in DOMAIN links : links[i].meal_id \in IdSet(last.meal_ids)}

\* (ingredient name, unit, category) of the link at position i
LinkTriple(i) ==
    LET g == CHOOSE g \in ingredients : g.id = links[i].ingredient_id
    IN  <<g.name, links[i].unit, g.category>>

\* (name, unit, category) of an entry (name, quantity, unit, category)
EntryTriple(e) == <<e[1], e[3], e[4]>>

RECURSIVE SumQuantity(_)
SumQuantity(S) ==
    IF S = {} THEN 0
    ELSE LET i == CHOOSE i \in S : TRUE
         IN  links[i].quantity + SumQuantity(S \ {i})

\* C11: generate_shopping_list returns exactly one entry per distinct triple
\* (ingredient name, unit, category) among the links of the selected meals,
\* and the entry's quantity is the sum over the selected links of that triple.
C11_ShoppingListAggregates ==
    last.op = "generate_shopping_list" =>
        /\ \A i \in SelectedLinks :
              \E k \in DOMAIN last.ret : EntryTriple(last.ret[k]) = LinkTriple(i)
        /\ \A k \in DOMAIN last.ret :
              LET same == {i \in SelectedLinks :
                              LinkTriple(i) = EntryTriple(last.ret[k])}
              IN  same # {} /\ last.ret[k][2] = SumQuantity(same)
        /\ \A k1 \in DOMAIN last.ret, k2 \in DOMAIN last.ret :
              EntryTriple(last.ret[k1]) = EntryTriple(last.ret[k2]) => k1 = k2

\* one ingredient listed under two units, one entry a sum of two links
C11_Witness ==
    /\ last.op = "generate_shopping_list"
    /\ \E k1 \in DOMAIN last.ret, k2 \in DOMAIN last.ret :
          /\ last.ret[k1][1] = last.ret[k2][1]
          /\ last.ret[k1][3] # last.ret[k2][3]
          /\ last.ret[k1][2] = 3

\* C12: two lists with the same set of meal ids give identical shopping
\* lists, entry for entry.
C12_OrderIndependent ==
    last.op = "generate_shopping_list" =>
        \A meal_ids \in ShopIdLists :
            IdSet(meal_ids) = IdSet(last.meal_ids)
                => generate_shopping_list(db, meal_ids) = last.ret

\* the ids were given as [2, 1] and two entries of the list tie on
\* (rank, name): one ingredient under two units, linked by different meals
C12_Witness ==
    /\ last.op = "generate_shopping_list"
    /\ last.meal_ids = <<2, 1>>
    /\ Len(last.ret) = 2
    /\ last.ret[1][1] = last.ret[2][1]
    /\ last.ret[1][3] # last.ret[2][3]
    /\ \E i \in DOMAIN links, j \in DOMAIN links :
          links[i].meal_id = 1 /\ links[j].meal_id = 2

\* a <= b for Python str, and for the (rank, name) pairs
StrLeq(a, b) == a = b \/ StrLess(a, b)
RankNameLeq(k1, k2) == k1[1] < k2[1] \/ (k1[1] = k2[1] /\ StrLeq(k1[2], k2[2]))

\* (category rank, lower-cased name) of an entry
RankName(e) == <<CategoryValue(from_string(e[4])), Lower(e[1])>>

\* C13: for every pair of consecutive entries of the shopping list the key
\* (category rank, lower(name)) of the first is <= that of the second.
C13_SortedByRankAndName ==
    last.op = "generate_shopping_list" =>
        \A k \in 1..(Len(last.ret) - 1) :
            RankNameLeq(RankName(last.ret[k]), RankName(last.ret[k + 1]))

\* "a" precedes "B" within one rank, and a lower rank precedes both
C13_Witness ==
    /\ last.op = "generate_shopping_list"
    /\ Len(last.ret) = 3
    /\ last.ret[1][1] = <<99>>
    /\ last.ret[2][1] = <<97>>
    /\ last.ret[3][1] = <<66>>

\* the category string matches no Category name once normalized
Unrecognized(category_str) ==
    \A c \in CategoryNames : Normalize(category_str) # Ascii(c)

\* C14: an entry whose category does not normalize to a Category is in the
\* result for every selected link that has it, and stands where an entry of
\* rank 9 (NOT_SURE) with its name stands.
C14_UnknownCategoryAsNotSure ==
    last.op = "generate_shopping_list" =>
        /\ \A i \in SelectedLinks :
              Unrecognized(LinkTriple(i)[3]) =>
                 \E k \in DOMAIN last.ret :
                    /\ EntryTriple(last.ret[k]) = LinkTriple(i)
                    /\ last.ret[k][2] =
                          SumQuantity({j \in SelectedLinks :
                                          LinkTriple(j) = LinkTriple(i)})
        /\ \A k \in DOMAIN last.ret :
              Unrecognized(last.ret[k][4]) =>
                 /\ \A j \in 1..(k - 1) :
                       RankNameLeq(RankName(last.ret[j]),
                                   <<9, Lower(last.ret[k][1])>>)
                 /\ \A j \in (k + 1)..Len(last.ret) :
                       RankNameLeq(<<9, Lower(last.ret[k][1])>>,
                                   RankName(last.ret[j]))

\* the entry of category "zzz" stands between a rank-4 and a NOT_SURE entry
C14_Witness ==
    /\ last.op = "generate_shopping_list"
    /\ Len(last.ret) = 3
    /\ last.ret[2][4] = "zzz"
    /\ last.ret[1][4] = "Dry Food"
    /\ last.ret[3][4] = "NOT_SURE"

\* C15: after a successful update_meal(id, ..., ings), get_meal_ingredients(id)
\* returns one line per supplied entry, in the order supplied, with the
\* entry's ingredient (by case-insensitive name), quantity and unit, and no
\* other line.  Every update of an existing meal commits at least once, so
\* a call whose first commit fails does not return and is left out.
C15_UpdateRoundTrip ==
    \A meal_id \in Ids(meals), name \in MealNames, meta \in Metas,
       ings \in IngredientLists, failAt \in FailPoints \ {1} :
        LET r == update_meal(db, meal_id, name, meta, ings, failAt)
            got == get_meal_ingredients(r.st.com, meal_id)
        IN  (r.st.err = "ok" /\ r.ret = True) =>
                /\ Len(got) = Len(ings)
                /\ \A i \in DOMAIN got :
                      /\ Lower(got[i].ingredient_name) = Lower(ings[i][1])
                      /\ got[i].quantity = ings[i][2]
                      /\ got[i].unit = ings[i][3]

\* an update replaced a meal's lines: the meal has the two lines of the list
\* ("g" 2, "G" 1) and had others before
C15_Witness ==
    /\ last.op = "update_meal" /\ last.err = "ok" /\ last.ret = True
    /\ \E m \in meals :
          /\ Len(MealLinks(links, m.id)) = 2
          /\ MealLinks(links, m.id)[1].quantity = 2
          /\ MealLinks(links, m.id)[2].quantity = 1

\* C16: delete_meal(id) on an existing meal removes the Meal row and the
\* MealIngredient rows of that meal, and leaves every Ingredient row, every
\* other Meal row and every link of other meals as they were.
C16_DeleteMealFrame ==
    [][(last'.op = "delete_meal" /\ last'.err = "ok" /\ last'.ret = True)
          => \E m \in meals :
                /\ meals' = meals \ {m}
                /\ links' = SelectSeq(links, LAMBDA l : l.meal_id # m.id)
                /\ ingredients' = ingredients]_vars

\* a meal was deleted while the other meal keeps its two links
C16_Witness ==
    /\ last.op = "delete_meal" /\ last.err = "ok" /\ last.ret = True
    /\ Cardinality(meals) = 1
    /\ Len(links) = 2
    /\ ingredients # {}

\* C17: cleanup_unused_ingredients deletes exactly the Ingredient rows no
\* MealIngredient row references, returns their number, and leaves the Meal
\* rows and the MealIngredient rows as they were.
C17_CleanupExact ==
    [][(last'.op = "cleanup_unused_ingredients" /\ last'.err = "ok")
          => /\ ingredients' =
                   {g \in ingredients :
                       \E i \in DOMAIN links : links[i].ingredient_id = g.id}
             /\ last'.ret = Cardinality(ingredients \ ingredients')
             /\ UNCHANGED <<meals, links>>]_vars

\* the cleanup removed the one ingredient, which no link referenced any more
C17_Witness ==
    /\ last.op = "cleanup_unused_ingredients" /\ last.err = "ok"
    /\ last.ret = 1
    /\ ingredients = {}
    /\ meals # {}

\* C18: a step of add_meal, update_meal or delete_meal removes no Ingredient
\* row.
C18_OnlyCleanupRemovesIngredients ==
    [][last'.op \in {"add_meal", "update_meal", "delete_meal"}
          => ingredients \subseteq ingredients']_vars

\* the last meal was deleted and the ingredient it used is still stored
C18_Witness ==
    /\ last.op = "delete_meal" /\ last.err = "ok" /\ last.ret = True
    /\ meals = {}
    /\ links = <<>>
    /\ ingredients # {}

\* C19: update_meal with a meal id that does not exist returns False, commits
\* nothing and leaves the store as it was.
C19_UpdateMissingMeal ==
    \A meal_id \in MealIds \ Ids(meals), name \in MealNames, meta \in Metas,
       ings \in IngredientLists, failAt \in FailPoints :
        LET r == update_meal(db, meal_id, name, meta, ings, failAt)
        IN  /\ r.ret = False
            /\ r.st.err = "ok"
            /\ r.st.obs = {}
            /\ r.st.com = db

\* update_meal returned False while a meal exists
C19_Witness ==
    /\ last.op = "update_meal" /\ last.err = "ok" /\ last.ret = False
    /\ meals # {}

\* C20: delete_meal with a meal id that does not exist returns False and
\* leaves the store as it was; with an existing id it returns True.
C20_DeleteMealResult ==
    \A meal_id \in MealIds, failAt \in FailPoints :
        LET r == delete_meal(db, meal_id, failAt)
        IN  /\ meal_id \notin Ids(meals) =>
                  r.ret = False /\ r.st.err = "ok" /\ r.st.com = db
            /\ (meal_id \in Ids(meals) /\ r.st.err = "ok") => r.ret = True

\* delete_meal returned False while a meal with links exists
C20_Witness ==
    /\ last.op = "delete_meal" /\ last.err = "ok" /\ last.ret = False
    /\ meals # {}
    /\ links # <<>>

\* C21: the lines get_meal_ingredients returns are ordered by ingredient name
\* (each line's name is <= the next line's, compared as written or without
\* regard to case).
C21_LinesOrderedByName ==
    last.op = "get_meal_ingredients" =>
        \A k \in 1..(Len(last.ret) - 1) :
            \/ StrLeq(last.ret[k].ingredient_name,
                      last.ret[k + 1].ingredient_name)
            \/ StrLeq(Lower(last.ret[k].ingredient_name),
                      Lower(last.ret[k + 1].ingredient_name))

\* the string matches a Category: stripped, in upper case and with "_" for
\* " ", it is the name of a Category
MatchesCategory(cs) == \E c \in CategoryNames : NormalizeChars(cs) = Ascii(c)

\* C22: Category.from_string returns a Category for every string and for
\* None and raises nothing, and returns NOT_SURE for None and for every
\* string that matches no Category.
C22_FromStringTotal ==
    last.op = "from_string" =>
        /\ last.err = "ok"
        /\ last.ret \in CategoryNames
        /\ (last.category_str.is_none
               \/ ~MatchesCategory(last.category_str.chars))
              => last.ret = "NOT_SURE"

\* from_string was applied to "totally-unknown-xyz"
C22_Witness ==
    /\ last.op = "from_string"
    /\ ~last.category_str.is_none
    /\ last.category_str.chars = TotallyUnknown
    /\ last.ret = "NOT_SURE"

\* C23: for every Category c, from_string applied to the name or the display
\* name of c, in any letter case and with whitespace before and behind it,
\* returns c.
C23_FromStringInvertsDisplay ==
    last.op = "from_string" =>
        (last.category_str.spelling_of # None
            => last.ret = last.category_str.spelling_of)

\* from_string was applied to " dRY fOOD" followed by a tab
C23_Witness ==
    /\ last.op = "from_string"
    /\ ~last.category_str.is_none
    /\ last.category_str.chars = <<32, 100, 82, 89, 32, 102, 79, 79, 68, 9>>
    /\ last.ret = "DRY_FOOD"

\* the rows of the file the import works on: those with both names
ImportedRows == {i \in DOMAIN last.rows : last.rows[i].Ingredient # <<>>}

C25_QuantityPositive ==
    \A i \in DOMAIN links : links[i].quantity > 0

\* C26: no Meal row has an empty name, and a call of add_meal or update_meal
\* with an empty name raises and leaves the store as it was.
C26_EmptyNameRejected ==
    /\ \A m \in meals : m.name # <<>>
    /\ (last.op \in {"add_meal", "update_meal"} /\ last.name = <<>>)
          => last.err # "ok"

\* C27: across a step of add_meal or update_meal, an Ingredient row whose
\* name equals, case-insensitively, the name of a row stored before the step
\* has that row's name and category.
C27_ExistingIngredientUnchanged ==
    [][last'.op \in {"add_meal", "update_meal"}
          => \A g \in ingredients, g2 \in ingredients' :
                Lower(g2.name) = Lower(g.name)
                   => g2.name = g.name /\ g2.category = g.category]_vars

\* the row named "g" of category "zzz" is linked by the entry ("G", 1, "g"),
\* which names no category
C27_Witness ==
    /\ last.op \in {"add_meal", "update_meal"} /\ last.err = "ok"
    /\ \E g \in ingredients, l \in Rows(links) :
          /\ g.name = <<103>> /\ g.category = "zzz"
          /\ l.ingredient_id = g.id /\ l.quantity = 1

\* C29: when the interleaved add_meal calls have ended, no two Meal rows and
\* no two Ingredient rows have names that are equal case-insensitively.
C29_InterleavedNamesUnique ==
    (\A p \in DOMAIN sessions : sessions[p].pc = "done") =>
        /\ \A m1 \in meals, m2 \in meals :
              Lower(m1.name) = Lower(m2.name) => m1 = m2
        /\ \A g1 \in ingredients, g2 \in ingredients :
              Lower(g1.name) = Lower(g2.name) => g1 = g2

\* C30: right after a cleanup_unused_ingredients call every Ingredient row
\* left is referenced by a MealIngredient row, and a second call made then
\* leaves the store as it is and, when it returns, returns 0.
C30_CleanupIdempotent ==
    (last.op = "cleanup_unused_ingredients" /\ last.err = "ok") =>
        /\ \A g \in ingredients :
              \E i \in DOMAIN links : links[i].ingredient_id = g.id
        /\ \A failAt \in FailPoints :
              LET r == cleanup_unused_ingredients(db, failAt)
              IN  /\ r.st.com = db
                  /\ r.st.err = "ok" => r.ret = 0

\* the cleanup removed an ingredient and left one that a meal still uses
C30_Witness ==
    /\ last.op = "cleanup_unused_ingredients" /\ last.err = "ok"
    /\ last.ret >= 1
    /\ ingredients # {}
    /\ links # <<>>

\* C28: two lists of ids that hold the same ids of existing meals give the
\* same shopping list, whatever ids they repeat and whatever ids of missing
\* meals they hold.
C28_DependsOnExistingIds ==
    last.op = "generate_shopping_list" =>
        \A meal_ids \in ShopIdLists :
            (IdSet(meal_ids) \cap Ids(meals)
                = IdSet(last.meal_ids) \cap Ids(meals))
               => generate_shopping_list(db, meal_ids) = last.ret

\* the id of meal 1 was given twice and the one link of the meal is listed
\* with its own quantity
C28_Witness ==
    /\ last.op = "generate_shopping_list"
    /\ last.meal_ids = <<1, 1>>
    /\ Len(MealLinks(links, 1)) = 1
    /\ Len(last.ret) = 1
    /\ last.ret[1][2] = MealLinks(links, 1)[1].quantity

====
